---- MODULE Spec2Model ----
(***************************************************************************)
(* Model of the capitol crate: Citation::parse (tokenize, then the typed   *)
(* conversions Congress::parse, Chamber::parse, CongObjectType::parse, the *)
(* document number and the bill version) and Citation::to_url.             *)
(*                                                                         *)
(* Text is modelled as the crate sees it: a sequence of bytes (integers).  *)
(* Strings that the crate only produces (the URL) are TLA+ strings.        *)
(***************************************************************************)
EXTENDS Integers, Sequences, FiniteSets, TLC

VARIABLES CURRENT_CONGRESS, input, pc, result, url,
          now, CURRENT_YEAR, once, thread, computed, observed, read_at, ticks

\* The state of a caller of Citation::parse and Citation::to_url.
citeVars == <<input, pc, result, url>>

\* The wall clock, the second lazy static of constants.rs, the state of the
\* two LazyLock cells, and the threads that dereference CURRENT_CONGRESS.
clockVars == <<now, CURRENT_YEAR, once, thread, computed, observed, read_at, ticks>>

vars == <<CURRENT_CONGRESS, input, pc, result, url,
          now, CURRENT_YEAR, once, thread, computed, observed, read_at, ticks>>

(***************************************************************************)
(* Bounds.                                                                 *)
(***************************************************************************)
\* The largest value the lazily computed CURRENT_CONGRESS takes in the model.
MaxCongress == 13

\* The threads that race on the first access to CURRENT_CONGRESS.
NumThreads == 2

\* The reads of CURRENT_CONGRESS each thread makes.
MaxReads == 2

\* The wall clock is first looked at between 1 December of this year and
\* ClockDays days later, and moves forward at most MaxTicks times.
ClockFirstYear == 2026
ClockDays == 35
MaxTicks == 2

(***************************************************************************)
(* Bytes and text.                                                         *)
(***************************************************************************)
DigitChars == "0123456789"
UpperChars == "ABCDEFGHIJKLMNOPQRSTUVWXYZ"
LowerChars == "abcdefghijklmnopqrstuvwxyz"

InChars(chars, c) == \E i \in 1..Len(chars) : SubSeq(chars, i, i) = c
IndexIn(chars, c) == CHOOSE i \in 1..Len(chars) : SubSeq(chars, i, i) = c

\* The ASCII code of a one-character string (digits, letters and '-').
Ord(c) ==
    IF InChars(DigitChars, c) THEN 47 + IndexIn(DigitChars, c)
    ELSE IF InChars(UpperChars, c) THEN 64 + IndexIn(UpperChars, c)
    ELSE IF InChars(LowerChars, c) THEN 96 + IndexIn(LowerChars, c)
    ELSE 45

\* str::as_bytes on an ASCII string.
Bytes(s) == [i \in 1..Len(s) |-> Ord(SubSeq(s, i, i))]

\* The character of an ASCII digit or letter byte.
Chr(b) ==
    IF b >= 48 /\ b <= 57 THEN SubSeq(DigitChars, b - 47, b - 47)
    ELSE IF b >= 65 /\ b <= 90 THEN SubSeq(UpperChars, b - 64, b - 64)
    ELSE IF b >= 97 /\ b <= 122 THEN SubSeq(LowerChars, b - 96, b - 96)
    ELSE "-"

RECURSIVE Text(_)
\* The text of a byte sequence that String::from_utf8 accepted.
Text(bs) == IF bs = <<>> THEN "" ELSE Chr(Head(bs)) \o Text(Tail(bs))

\* char::is_alphanumeric on a byte cast to char (the byte read as Latin-1),
\* where the tokenizer calls u8::is_ascii_digit.
is_latin1_alphanumeric(ch) ==
    \/ (ch >= 48 /\ ch <= 57)
    \/ (ch >= 65 /\ ch <= 90)
    \/ (ch >= 97 /\ ch <= 122)
    \/ ch \in {170, 178, 179, 181, 185, 186, 188, 189, 190}
    \/ (ch >= 192 /\ ch # 215 /\ ch # 247)

\* u8::is_ascii_digit
is_ascii_digit(ch) == ch >= 48 /\ ch <= 57

\* u8::is_ascii_alphabetic
is_ascii_alphabetic(ch) == (ch >= 65 /\ ch <= 90) \/ (ch >= 97 /\ ch <= 122)

\* u8::to_ascii_lowercase
to_ascii_lowercase(ch) == IF ch >= 65 /\ ch <= 90 THEN ch + 32 ELSE ch

\* <[u8]>::to_ascii_lowercase
slice_to_ascii_lowercase(bs) == [i \in 1..Len(bs) |-> to_ascii_lowercase(bs[i])]

\* u8::eq_ignore_ascii_case
eq_ignore_ascii_case(a, b) == to_ascii_lowercase(a) = to_ascii_lowercase(b)

\* A UTF-8 continuation byte, 0x80..0xBF.
is_utf8_continuation(bs, i) == i <= Len(bs) /\ bs[i] >= 128 /\ bs[i] <= 191

RECURSIVE utf8_valid_from(_, _)
\* The validation String::from_utf8 runs: from position i on, the bytes are
\* well-formed UTF-8 (one-byte through four-byte sequences, without overlong
\* forms, surrogates or code points above U+10FFFF).
utf8_valid_from(bs, i) ==
    IF i > Len(bs) THEN TRUE
    ELSE IF bs[i] < 128 THEN utf8_valid_from(bs, i + 1)
    ELSE IF bs[i] >= 194 /\ bs[i] <= 223
         THEN is_utf8_continuation(bs, i + 1) /\ utf8_valid_from(bs, i + 2)
    ELSE IF bs[i] >= 224 /\ bs[i] <= 239
         THEN /\ is_utf8_continuation(bs, i + 1)
              /\ is_utf8_continuation(bs, i + 2)
              /\ (bs[i] = 224 => bs[i + 1] >= 160)
              /\ (bs[i] = 237 => bs[i + 1] <= 159)
              /\ utf8_valid_from(bs, i + 3)
    ELSE IF bs[i] >= 240 /\ bs[i] <= 244
         THEN /\ is_utf8_continuation(bs, i + 1)
              /\ is_utf8_continuation(bs, i + 2)
              /\ is_utf8_continuation(bs, i + 3)
              /\ (bs[i] = 240 => bs[i + 1] >= 144)
              /\ (bs[i] = 244 => bs[i + 1] <= 143)
              /\ utf8_valid_from(bs, i + 4)
    ELSE FALSE

\* String::from_utf8 succeeds exactly on well-formed UTF-8.
from_utf8_ok(bs) == utf8_valid_from(bs, 1)

RECURSIVE DigitsValue(_)
\* The number a non-empty run of ASCII digits denotes.
DigitsValue(bs) ==
    IF bs = <<>> THEN 0
    ELSE 10 * DigitsValue(SubSeq(bs, 1, Len(bs) - 1)) + (bs[Len(bs)] - 48)

\* str::parse::<u64> / str::parse::<usize>: an empty string or a string with
\* a byte that is not a digit is a ParseIntError.  (The inputs of the model
\* are short, so the value never leaves the 64-bit range.)
parse_int_ok(bs) == bs # <<>> /\ \A i \in 1..Len(bs) : is_ascii_digit(bs[i])

RECURSIVE to_string(_)
\* Display of an unsigned integer: its decimal digits, as bytes.
to_string(n) ==
    IF n < 10 THEN <<48 + n>>
    ELSE Append(to_string(n \div 10), 48 + (n % 10))

(***************************************************************************)
(* Results.                                                                *)
(***************************************************************************)
Ok(v) == [tag |-> "Ok", val |-> v]
Err(e) == [tag |-> "Err", err |-> e]
None == [some |-> FALSE]
Some(v) == [some |-> TRUE, val |-> v]
NoResult == [tag |-> "None"]

(***************************************************************************)
(* constants.rs                                                            *)
(***************************************************************************)
FIRST_CONGRESS == 1789
SECONDS_IN_YEAR == 31536000
UNIX_EPOCH_YEAR == 1970

\* The closure of CURRENT_YEAR, applied to the seconds since UNIX_EPOCH.
CurrentYearOf(secs) == secs \div SECONDS_IN_YEAR + UNIX_EPOCH_YEAR

\* The closure of CURRENT_CONGRESS, applied to the value of CURRENT_YEAR.
CurrentCongressOf(year) == (year - FIRST_CONGRESS) \div 2 + 1

\* What a thread that finds a LazyLock cell unclaimed leaves in its state
\* if it claims nothing and just runs the closure.
OnceUnguarded(state) == state

\* What a thread that finds a LazyLock cell unclaimed leaves in its state
\* before it runs the closure (Once::call_once).
OnceClaim(state) == IF state = "Incomplete" THEN "Running" ELSE state

BASE_URL == "https://www.congress.gov"

BILL_VERSIONS ==
    { Bytes(v) : v \in
        { "as", "ash", "ath", "ats", "cdh", "cds", "cph", "cps", "eah", "eas",
          "eh", "enr", "es", "fph", "fps", "hds", "ih", "iph", "ips", "is",
          "lth", "lts", "pap", "pcs", "pp", "rch", "rcs", "rds", "rfh", "rfs",
          "rh", "rhuc", "rih", "rs", "rth", "rts", "sc" } }

(***************************************************************************)
(* Congress                                                                *)
(***************************************************************************)
\* Congress::parse without the upper bound.
CongressParseUnbounded(bs, current) ==
    IF from_utf8_ok(bs)
    THEN IF parse_int_ok(bs) THEN Ok(DigitsValue(bs)) ELSE Err("ParseInt")
    ELSE Err("FromUtf8")

\* Congress::parse
CongressParse(bs, current) ==
    IF from_utf8_ok(bs)
    THEN IF parse_int_ok(bs)
         THEN IF DigitsValue(bs) <= current
              THEN Ok(DigitsValue(bs))
              ELSE Err("InvalidCongress")
         ELSE Err("ParseInt")
    ELSE Err("FromUtf8")

\* Congress::as_ordinal with the English exception for 11, 12 and 13.
as_ordinal_english(congress) ==
    LET ordinal == to_string(congress)
        last == ordinal[Len(ordinal)]
        teen == (congress % 100) \in {11, 12, 13}
    IN  IF teen THEN Text(ordinal) \o "th"
        ELSE IF last = 49 THEN Text(ordinal) \o "st"
        ELSE IF last = 50 THEN Text(ordinal) \o "nd"
        ELSE IF last = 51 THEN Text(ordinal) \o "rd"
        ELSE Text(ordinal) \o "th"

\* Congress::as_ordinal
as_ordinal(congress) ==
    LET ordinal == to_string(congress)
        last == ordinal[Len(ordinal)]
    IN  IF last = 49 THEN Text(ordinal) \o "st"
        ELSE IF last = 50 THEN Text(ordinal) \o "nd"
        ELSE IF last = 51 THEN Text(ordinal) \o "rd"
        ELSE Text(ordinal) \o "th"

(***************************************************************************)
(* Chamber                                                                 *)
(***************************************************************************)
\* Chamber::parse
ChamberParse(b) == IF eq_ignore_ascii_case(b, 104) THEN "House" ELSE "Senate"

\* Display for Chamber
ChamberDisplay(chamber) == IF chamber = "House" THEN "house" ELSE "senate"

(***************************************************************************)
(* CongObjectType                                                          *)
(***************************************************************************)
\* The byte strings the match of CongObjectType::parse compares against.
TAG_EMPTY == Bytes("")
TAG_R == Bytes("r")
TAG_RES == Bytes("res")
TAG_CONRES == Bytes("conres")
TAG_JRES == Bytes("jres")
TAG_RPT == Bytes("rpt")

\* CongObjectType::parse with the bill tags accepted for either chamber.
CongObjectTypeParseAnyChamber(bs, chamber) ==
    LET tag == slice_to_ascii_lowercase(bs)
    IN  IF tag \in {TAG_EMPTY, TAG_R}
        THEN Ok(IF chamber = "House" THEN "HouseBill" ELSE "SenateBill")
        ELSE IF tag = TAG_RES /\ chamber = "House" THEN Ok("HouseResolution")
        ELSE IF tag = TAG_RES /\ chamber = "Senate" THEN Ok("SenateResolution")
        ELSE IF tag = TAG_CONRES /\ chamber = "House"
             THEN Ok("HouseConcurrentResolution")
        ELSE IF tag = TAG_CONRES /\ chamber = "Senate"
             THEN Ok("SenateConcurrentResolution")
        ELSE IF tag = TAG_JRES /\ chamber = "House" THEN Ok("HouseJointResolution")
        ELSE IF tag = TAG_JRES /\ chamber = "Senate" THEN Ok("SenateJointResolution")
        ELSE IF tag = TAG_RPT /\ chamber = "House" THEN Ok("HouseReport")
        ELSE IF tag = TAG_RPT /\ chamber = "Senate" THEN Ok("SenateReport")
        ELSE Err("UnknownCongObjectType")

\* CongObjectType::parse with the Senate report arm yielding the House variant.
CongObjectTypeParseReportArm(bs, chamber) ==
    LET tag == slice_to_ascii_lowercase(bs)
    IN  IF tag \in {TAG_EMPTY, TAG_R} /\ chamber = "House" THEN Ok("HouseBill")
        ELSE IF tag = TAG_EMPTY /\ chamber = "Senate" THEN Ok("SenateBill")
        ELSE IF tag = TAG_RES /\ chamber = "House" THEN Ok("HouseResolution")
        ELSE IF tag = TAG_RES /\ chamber = "Senate" THEN Ok("SenateResolution")
        ELSE IF tag = TAG_CONRES /\ chamber = "House"
             THEN Ok("HouseConcurrentResolution")
        ELSE IF tag = TAG_CONRES /\ chamber = "Senate"
             THEN Ok("SenateConcurrentResolution")
        ELSE IF tag = TAG_JRES /\ chamber = "House" THEN Ok("HouseJointResolution")
        ELSE IF tag = TAG_JRES /\ chamber = "Senate" THEN Ok("SenateJointResolution")
        ELSE IF tag = TAG_RPT THEN Ok("HouseReport")
        ELSE Err("UnknownCongObjectType")

\* CongObjectType::parse: the arms of the match, in order.
CongObjectTypeParse(bs, chamber) ==
    LET tag == slice_to_ascii_lowercase(bs)
    IN  IF tag \in {TAG_EMPTY, TAG_R} /\ chamber = "House" THEN Ok("HouseBill")
        ELSE IF tag = TAG_EMPTY /\ chamber = "Senate" THEN Ok("SenateBill")
        ELSE IF tag = TAG_RES /\ chamber = "House" THEN Ok("HouseResolution")
        ELSE IF tag = TAG_RES /\ chamber = "Senate" THEN Ok("SenateResolution")
        ELSE IF tag = TAG_CONRES /\ chamber = "House"
             THEN Ok("HouseConcurrentResolution")
        ELSE IF tag = TAG_CONRES /\ chamber = "Senate"
             THEN Ok("SenateConcurrentResolution")
        ELSE IF tag = TAG_JRES /\ chamber = "House" THEN Ok("HouseJointResolution")
        ELSE IF tag = TAG_JRES /\ chamber = "Senate" THEN Ok("SenateJointResolution")
        ELSE IF tag = TAG_RPT /\ chamber = "House" THEN Ok("HouseReport")
        ELSE IF tag = TAG_RPT /\ chamber = "Senate" THEN Ok("SenateReport")
        ELSE Err("UnknownCongObjectType")

\* Display for CongObjectType
CongObjectTypeDisplay(object_type) ==
    IF object_type \in {"HouseBill", "SenateBill"} THEN "bill"
    ELSE IF object_type \in {"HouseResolution", "SenateResolution"} THEN "resolution"
    ELSE IF object_type \in {"HouseConcurrentResolution", "SenateConcurrentResolution"}
         THEN "concurrent-resolution"
    ELSE IF object_type \in {"HouseJointResolution", "SenateJointResolution"}
         THEN "joint-resolution"
    ELSE "report"

(***************************************************************************)
(* Citation                                                                *)
(***************************************************************************)
\* The predicate of the congress loop of tokenize.
IsCongressByte(ch) == ch > 48 /\ ch <= 57

\* The predicate of the chamber step of tokenize.
IsChamberByte(ch) == ch = 104 \/ ch = 72 \/ ch = 115 \/ ch = 83

RECURSIVE congress_loop(_, _)
\* The first loop of tokenize: the position after the bytes it consumes,
\* `while let Some(&ch) = iter.next_if(|&&ch| ch > b'0' && ch <= b'9')`.
congress_loop(bs, pos) ==
    IF pos <= Len(bs) /\ IsCongressByte(bs[pos])
    THEN congress_loop(bs, pos + 1)
    ELSE pos

RECURSIVE alphabetic_loop(_, _)
\* The object-type and version loops of tokenize,
\* `while let Some(&ch) = iter.next_if(|&&ch| ch.is_ascii_alphabetic())`.
alphabetic_loop(bs, pos) ==
    IF pos <= Len(bs) /\ is_ascii_alphabetic(bs[pos])
    THEN alphabetic_loop(bs, pos + 1)
    ELSE pos

RECURSIVE digit_loop(_, _)
\* The number loop of tokenize,
\* `while let Some(&ch) = iter.next_if(|&&ch| ch.is_ascii_digit())`.
digit_loop(bs, pos) ==
    IF pos <= Len(bs) /\ is_ascii_digit(bs[pos])
    THEN digit_loop(bs, pos + 1)
    ELSE pos

\* Citation::tokenize with everything after the number taken as the version.
tokenize_rest_as_version(bs) ==
    LET p1 == congress_loop(bs, 1)
        taken == p1 <= Len(bs) /\ IsChamberByte(bs[p1])
        p2 == IF taken THEN p1 + 1 ELSE p1
        p3 == alphabetic_loop(bs, p2)
        p4 == digit_loop(bs, p3)
        ver_bytes == SubSeq(bs, p4, Len(bs))
    IN  [ congress    |-> SubSeq(bs, 1, p1 - 1),
          chamber     |-> IF taken THEN bs[p1] ELSE 0,
          object_type |-> SubSeq(bs, p2, p3 - 1),
          number      |-> SubSeq(bs, p3, p4 - 1),
          ver         |-> IF ver_bytes = <<>> THEN None ELSE Some(ver_bytes) ]

\* Citation::tokenize
tokenize(bs) ==
    LET p1 == congress_loop(bs, 1)
        taken == p1 <= Len(bs) /\ IsChamberByte(bs[p1])
        p2 == IF taken THEN p1 + 1 ELSE p1
        p3 == alphabetic_loop(bs, p2)
        p4 == digit_loop(bs, p3)
        p5 == alphabetic_loop(bs, p4)
        ver_bytes == SubSeq(bs, p4, p5 - 1)
    IN  [ congress    |-> SubSeq(bs, 1, p1 - 1),
          chamber     |-> IF taken THEN bs[p1] ELSE 0,
          object_type |-> SubSeq(bs, p2, p3 - 1),
          number      |-> SubSeq(bs, p3, p4 - 1),
          ver         |-> IF ver_bytes = <<>> THEN None ELSE Some(ver_bytes) ]

\* The document number step of Citation::parse.
NumberParse(bs) ==
    IF ~from_utf8_ok(bs) THEN Err("FromUtf8")
    ELSE IF ~parse_int_ok(bs) THEN Err("ParseInt")
    ELSE Ok(DigitsValue(bs))

\* The version step of Citation::parse with an unknown version dropped.
VersionParseLenient(ver) ==
    IF ver.some
    THEN IF ver.val \in BILL_VERSIONS
         THEN IF from_utf8_ok(ver.val) THEN Ok(Some(ver.val)) ELSE Err("FromUtf8")
         ELSE Ok(None)
    ELSE Ok(None)

\* The version step of Citation::parse.
VersionParse(ver) ==
    IF ver.some
    THEN IF ver.val \in BILL_VERSIONS
         THEN IF from_utf8_ok(ver.val) THEN Ok(Some(ver.val)) ELSE Err("FromUtf8")
         ELSE Err("InvalidBillVersion")
    ELSE Ok(None)

\* Citation::parse
CitationParse(bs, current) ==
    LET bytes == tokenize(bs)
        congress == CongressParse(bytes.congress, current)
        chamber == ChamberParse(bytes.chamber)
        object_type == CongObjectTypeParse(bytes.object_type, chamber)
        number == NumberParse(bytes.number)
        ver == VersionParse(bytes.ver)
    IN  IF congress.tag = "Err" THEN congress
        ELSE IF object_type.tag = "Err" THEN object_type
        ELSE IF number.tag = "Err" THEN number
        ELSE IF ver.tag = "Err" THEN ver
        ELSE Ok([ congress    |-> congress.val,
                  chamber     |-> chamber,
                  object_type |-> object_type.val,
                  number      |-> number.val,
                  ver         |-> ver.val ])

\* Citation::to_url with every document in the bill collection.
to_url_bill_only(self) ==
    LET base == BASE_URL \o "/" \o "bill" \o "/" \o as_ordinal(self.congress)
                  \o "-congress/" \o ChamberDisplay(self.chamber) \o "-"
                  \o CongObjectTypeDisplay(self.object_type) \o "/"
                  \o Text(to_string(self.number))
    IN  IF self.ver.some THEN base \o "/text/" \o Text(self.ver.val) ELSE base

\* Citation::to_url with the version appended for bills only.
to_url_version_for_bills(self) ==
    LET collection == IF self.object_type \in {"HouseReport", "SenateReport"}
                      THEN "congressional-report"
                      ELSE "bill"
        base == BASE_URL \o "/" \o collection \o "/" \o as_ordinal(self.congress)
                  \o "-congress/" \o ChamberDisplay(self.chamber) \o "-"
                  \o CongObjectTypeDisplay(self.object_type) \o "/"
                  \o Text(to_string(self.number))
    IN  IF self.ver.some /\ self.object_type \in {"HouseBill", "SenateBill"}
        THEN base \o "/text/" \o Text(self.ver.val)
        ELSE base

\* Citation::to_url
to_url(self) ==
    LET collection == IF self.object_type \in {"HouseReport", "SenateReport"}
                      THEN "congressional-report"
                      ELSE "bill"
        base == BASE_URL \o "/" \o collection \o "/" \o as_ordinal(self.congress)
                  \o "-congress/" \o ChamberDisplay(self.chamber) \o "-"
                  \o CongObjectTypeDisplay(self.object_type) \o "/"
                  \o Text(to_string(self.number))
    IN  IF self.ver.some THEN base \o "/text/" \o Text(self.ver.val) ELSE base

(***************************************************************************)
(* The inputs the caller passes to Citation::parse.                        *)
(***************************************************************************)
CongressParts == {<<>>} \cup { to_string(n) : n \in 0..(MaxCongress + 1) }
ChamberParts == { Bytes(s) : s \in {"", "h", "H", "s", "S"} }
TagParts == { Bytes(s) : s \in {"", "r", "R", "res", "conres", "jres", "rpt", "Rpt", "x"} }
NumberParts == { Bytes(s) : s \in {"", "0", "00", "1", "07", "51"} }
VersionParts == { Bytes(s) : s \in {"", "ih", "IH", "xx"} }

\* Every combination of the segment samples.
SegmentInputs ==
    { c \o h \o t \o n \o v :
        c \in CongressParts, h \in ChamberParts, t \in TagParts,
        n \in NumberParts, v \in VersionParts }

\* Every spelling of a version code in upper and lower case letters.
CaseVariants(v) ==
    { [i \in 1..Len(v) |-> IF i \in U THEN v[i] - 32 ELSE v[i]] :
        U \in SUBSET (1..Len(v)) }

\* A citation of the first congress for each of the ten object types.
VersionHeads ==
    { Bytes("1") \o h \o t \o Bytes("1") :
        h \in {Bytes("h"), Bytes("s")},
        t \in { Bytes(s) : s \in {"", "res", "conres", "jres", "rpt"} } }
    \cup {Bytes("1hr1")}

\* Every version code, in every spelling, after each of the heads.
VersionInputs ==
    { head \o w : head \in VersionHeads,
                  w \in UNION { CaseVariants(v) : v \in BILL_VERSIONS } }

\* The citations the documentation and the tests of the crate name, as far
\* as their congress exists in the model.
ExampleInputs ==
    { Bytes(s) : s \in {"1rpt5", "10", "1sr1", "0hr1", "1hr0", "1hr0xx", "1hr1IH"} }

\* Citations, whole and cut short, that the further inputs are built from.
SampleHeads ==
    { Bytes(s) : s \in {"", "1", "1h", "1hr", "1hr1", "1hr1i", "1hr1ih",
                        "1s1is", "1hrpt1", "1hr1xx", "0hr1", "1x1"} }

\* Bytes that follow a citation: a digit after the version, punctuation,
\* punctuation followed by what looks like more of a citation.
TrailingParts == { Bytes(s) : s \in {"5", "-", "-h1", "-ih"} }

\* A citation followed by bytes the five scanning phases do not consume.
TrailingInputs == { head \o g : head \in SampleHeads, g \in TrailingParts }

\* The UTF-8 encodings of U+00E9, U+00B2 and U+20AC.
NonAsciiChars == { <<195, 169>>, <<194, 178>>, <<226, 130, 172>> }

\* Text with a character outside ASCII at every place of a citation.
NonAsciiInputs ==
    { head \o ch \o rest :
        head \in SampleHeads, ch \in NonAsciiChars,
        rest \in { Bytes(s) : s \in {"", "1", "ih", "hr1"} } }

Inputs ==
    SegmentInputs \cup VersionInputs \cup ExampleInputs
        \cup TrailingInputs \cup NonAsciiInputs

(***************************************************************************)
(* The state machine: the clock is read, the caller parses one citation    *)
(* and renders its URL.                                                    *)
(***************************************************************************)
Threads == 1..NumThreads

\* The clock has been read and no thread is inside a LazyLock.
ClockSettled ==
    /\ now = 0
    /\ CURRENT_YEAR = FIRST_CONGRESS + 2 * (CURRENT_CONGRESS - 1)
    /\ once = [year |-> "Complete", congress |-> "Complete"]
    /\ thread = [t \in Threads |-> [at |-> "idle", reads |-> 0]]
    /\ computed = [year |-> 1, congress |-> 1]
    /\ observed = {}
    /\ read_at = 0
    /\ ticks = 0

Init ==
    /\ CURRENT_CONGRESS \in 1..MaxCongress
    /\ input \in Inputs
    /\ pc = "start"
    /\ result = NoResult
    /\ url = ""
    /\ ClockSettled

Parse ==
    /\ pc = "start"
    /\ result' = CitationParse(input, CURRENT_CONGRESS)
    /\ pc' = "parsed"
    /\ UNCHANGED <<CURRENT_CONGRESS, input, url>>
    /\ UNCHANGED clockVars

ToUrl ==
    /\ pc = "parsed"
    /\ result.tag = "Ok"
    /\ url' = to_url(result.val)
    /\ pc' = "rendered"
    /\ UNCHANGED <<CURRENT_CONGRESS, input, result>>
    /\ UNCHANGED clockVars

Next == Parse \/ ToUrl

Spec == Init /\ [][Next]_vars

(***************************************************************************)
(* The clock: threads dereference CURRENT_CONGRESS while the wall clock    *)
(* moves on.  The first dereference runs the closure of CURRENT_CONGRESS,  *)
(* which dereferences CURRENT_YEAR, whose closure reads SystemTime::now(). *)
(***************************************************************************)
RECURSIVE DaysBeforeYear(_)
\* The days from 1 January 1970 to 1 January of a year.
DaysBeforeYear(y) ==
    IF y <= UNIX_EPOCH_YEAR THEN 0
    ELSE DaysBeforeYear(y - 1)
           + (IF (y - 1) % 4 = 0 /\ ((y - 1) % 100 # 0 \/ (y - 1) % 400 = 0)
              THEN 366 ELSE 365)

SecondsInDay == 24 * 60 * 60

\* The two-year step of the wall clock, in seconds.
TickSeconds == 2 * SECONDS_IN_YEAR

\* 1 December of ClockFirstYear, as a day number since 1 January 1970.
FirstClockDay == DaysBeforeYear(ClockFirstYear + 1) - 31

\* The instants the wall clock shows when the program starts: midnight and
\* the last second of each day.
StartInstants ==
    { d * SecondsInDay + s :
        d \in FirstClockDay..(FirstClockDay + ClockDays),
        s \in {0, SecondsInDay - 1} }

InitClock ==
    /\ now \in StartInstants
    /\ CURRENT_YEAR = 0
    /\ CURRENT_CONGRESS = 0
    /\ once = [year |-> "Incomplete", congress |-> "Incomplete"]
    /\ thread = [t \in Threads |-> [at |-> "idle", reads |-> 0]]
    /\ computed = [year |-> 0, congress |-> 0]
    /\ observed = {}
    /\ read_at = 0
    /\ ticks = 0
    /\ input = <<>>
    /\ pc = "start"
    /\ result = NoResult
    /\ url = ""

\* The wall clock moves on.
Tick ==
    /\ ticks < MaxTicks
    /\ now' = now + TickSeconds
    /\ ticks' = ticks + 1
    /\ UNCHANGED <<CURRENT_CONGRESS, CURRENT_YEAR, once, thread, computed,
                   observed, read_at>>
    /\ UNCHANGED citeVars

\* `*CURRENT_CONGRESS` on an initialized cell: the thread reads the value.
ReadCongress(t) ==
    /\ thread[t].at = "idle"
    /\ thread[t].reads < MaxReads
    /\ once.congress = "Complete"
    /\ observed' = observed \cup {CURRENT_CONGRESS}
    /\ thread' = [thread EXCEPT ![t].reads = @ + 1]
    /\ UNCHANGED <<CURRENT_CONGRESS, CURRENT_YEAR, once, computed, now,
                   read_at, ticks>>
    /\ UNCHANGED citeVars

\* `*CURRENT_CONGRESS` on an unclaimed cell: the thread claims it and enters
\* the closure.  A thread that finds the cell Running waits.
ClaimCongress(t) ==
    /\ thread[t].at = "idle"
    /\ thread[t].reads < MaxReads
    /\ once.congress = "Incomplete"
    /\ once' = [once EXCEPT !.congress = OnceClaim(@)]
    /\ thread' = [thread EXCEPT ![t].at = "in_congress"]
    /\ UNCHANGED <<CURRENT_CONGRESS, CURRENT_YEAR, computed, observed, now,
                   read_at, ticks>>
    /\ UNCHANGED citeVars

\* `*CURRENT_YEAR` inside the closure of CURRENT_CONGRESS, on an unclaimed
\* cell: the thread claims it and enters the closure of CURRENT_YEAR.
ClaimYear(t) ==
    /\ thread[t].at = "in_congress"
    /\ once.year = "Incomplete"
    /\ once' = [once EXCEPT !.year = OnceClaim(@)]
    /\ thread' = [thread EXCEPT ![t].at = "in_year"]
    /\ UNCHANGED <<CURRENT_CONGRESS, CURRENT_YEAR, computed, observed, now,
                   read_at, ticks>>
    /\ UNCHANGED citeVars

\* The closure of CURRENT_YEAR: SystemTime::now() is read and the year
\* stored; the cell becomes Complete.
ComputeYear(t) ==
    /\ thread[t].at = "in_year"
    /\ read_at' = now
    /\ CURRENT_YEAR' = CurrentYearOf(now)
    /\ computed' = [computed EXCEPT !.year = @ + 1]
    /\ once' = [once EXCEPT !.year = "Complete"]
    /\ thread' = [thread EXCEPT ![t].at = "in_congress"]
    /\ UNCHANGED <<CURRENT_CONGRESS, observed, now, ticks>>
    /\ UNCHANGED citeVars

\* The closure of CURRENT_CONGRESS with CURRENT_YEAR initialized: the
\* congress is stored and the cell becomes Complete.
ComputeCongress(t) ==
    /\ thread[t].at = "in_congress"
    /\ once.year = "Complete"
    /\ CURRENT_CONGRESS' = CurrentCongressOf(CURRENT_YEAR)
    /\ computed' = [computed EXCEPT !.congress = @ + 1]
    /\ once' = [once EXCEPT !.congress = "Complete"]
    /\ thread' = [thread EXCEPT ![t].at = "idle"]
    /\ UNCHANGED <<CURRENT_YEAR, observed, now, read_at, ticks>>
    /\ UNCHANGED citeVars

NextClock ==
    \/ Tick
    \/ \E t \in Threads : ReadCongress(t)
    \/ \E t \in Threads : ClaimCongress(t)
    \/ \E t \in Threads : ClaimYear(t)
    \/ \E t \in Threads : ComputeYear(t)
    \/ \E t \in Threads : ComputeCongress(t)

SpecClock == InitClock /\ [][NextClock]_vars

(***************************************************************************)
(* Properties of Citation::parse and Citation::to_url.                     *)
(***************************************************************************)
Parsed == pc # "start"
Accepted == Parsed /\ result.tag = "Ok"
Rejected == Parsed /\ result.tag = "Err"

HR1 == Bytes("hr1")
HR51 == Bytes("hr51")
ZERO_HR1 == Bytes("0hr1")

\* C1: for every congress number n with 1 <= n <= CURRENT_CONGRESS, parsing
\* the decimal rendering of n followed by "hr1" succeeds and returns a
\* Citation whose congress is n.
C1_EveryPastCongressParses ==
    \A n \in 1..CURRENT_CONGRESS :
        (Parsed /\ input = to_string(n) \o HR1)
            => (result.tag = "Ok" /\ result.val.congress = n)

\* C2: no Citation returned by Citation::parse has number = 0.
C2_NumberIsNeverZero ==
    Accepted => result.val.number # 0

\* C3: parsing the decimal rendering of CURRENT_CONGRESS + 1 followed by
\* "hr51" fails with Error::InvalidCongress and no other error kind.
C3_FutureCongressIsInvalidCongress ==
    (Parsed /\ input = to_string(CURRENT_CONGRESS + 1) \o HR51)
        => result = Err("InvalidCongress")

\* C4: every Citation that Citation::parse returns has a congress c with
\* 1 <= c <= CURRENT_CONGRESS, and the input "0hr1" is rejected.
C4_CongressInRange ==
    /\ Accepted => (1 <= result.val.congress /\ result.val.congress <= CURRENT_CONGRESS)
    /\ (Parsed /\ input = ZERO_HR1) => result.tag = "Err"

\* A citation of the current congress itself has been accepted, at a clock
\* value that leaves room for smaller congresses.
C4_Witness ==
    /\ Accepted
    /\ CURRENT_CONGRESS > 1
    /\ result.val.congress = CURRENT_CONGRESS

\* The segments the tokenizer hands to the typed conversions, and how far
\* the conversions of the current input get.
Tokens == tokenize(input)
CongressOk == CongressParse(Tokens.congress, CURRENT_CONGRESS).tag = "Ok"
TokenChamber == ChamberParse(Tokens.chamber)
ObjectTypeOk == CongObjectTypeParse(Tokens.object_type, TokenChamber).tag = "Ok"
NumberOk == NumberParse(Tokens.number).tag = "Ok"

\* The table of object types: lowercased tag, chamber, variant.
ObjectTypeTable ==
    { <<"", "House", "HouseBill">>,
      <<"r", "House", "HouseBill">>,
      <<"", "Senate", "SenateBill">>,
      <<"res", "House", "HouseResolution">>,
      <<"res", "Senate", "SenateResolution">>,
      <<"conres", "House", "HouseConcurrentResolution">>,
      <<"conres", "Senate", "SenateConcurrentResolution">>,
      <<"jres", "House", "HouseJointResolution">>,
      <<"jres", "Senate", "SenateJointResolution">>,
      <<"rpt", "House", "HouseReport">>,
      <<"rpt", "Senate", "SenateReport">> }

\* C5: whenever the congress is valid, the object type is decided exactly by
\* the table on the lowercased tag and the chamber: a pair of the table
\* yields its variant (or a later number or version error), and every other
\* pair, such as "r" with Senate, fails with UnknownCongObjectType.
C5_ObjectTypeByTable ==
    LET tag == Text(slice_to_ascii_lowercase(Tokens.object_type))
        rows == { r \in ObjectTypeTable : r[1] = tag /\ r[2] = TokenChamber }
    IN  (Parsed /\ CongressOk) =>
            IF rows = {}
            THEN result = Err("UnknownCongObjectType")
            ELSE /\ result # Err("UnknownCongObjectType")
                 /\ result.tag = "Ok" =>
                        \E r \in rows : result.val.object_type = r[3]

\* "1sr1" has been rejected as an unknown object type.
C5_Witness ==
    /\ Parsed
    /\ input = Bytes("1sr1")
    /\ result = Err("UnknownCongObjectType")

C7_VersionCaseInsensitive ==
    (Parsed /\ input \in VersionInputs) =>
        /\ result.tag = "Ok"
        /\ result = CitationParse(slice_to_ascii_lowercase(input), CURRENT_CONGRESS)
        /\ result.val.ver.some
        /\ result.val.ver.val \in BILL_VERSIONS

\* The chamber word and the type slug of each object type.
UrlWords ==
    [ HouseBill |-> <<"house", "bill">>,
      SenateBill |-> <<"senate", "bill">>,
      HouseResolution |-> <<"house", "resolution">>,
      SenateResolution |-> <<"senate", "resolution">>,
      HouseConcurrentResolution |-> <<"house", "concurrent-resolution">>,
      SenateConcurrentResolution |-> <<"senate", "concurrent-resolution">>,
      HouseJointResolution |-> <<"house", "joint-resolution">>,
      SenateJointResolution |-> <<"senate", "joint-resolution">>,
      HouseReport |-> <<"house", "report">>,
      SenateReport |-> <<"senate", "report">> ]

\* C8: the URL of a parsed Citation is exactly
\* "https://www.congress.gov/" + collection + "/" + ordinal(congress) +
\* "-congress/" + chamber word + "-" + type slug + "/" + number, with
\* collection "congressional-report" iff the object type is a report and
\* "bill" otherwise, followed by "/text/" + version iff a version is present.
C8_UrlShape ==
    pc = "rendered" =>
        LET c == result.val
            report == c.object_type = "HouseReport" \/ c.object_type = "SenateReport"
            chamberWord == IF c.chamber = "House" THEN "house" ELSE "senate"
            stem == "https://www.congress.gov/"
                      \o (IF report THEN "congressional-report" ELSE "bill")
                      \o "/" \o as_ordinal(c.congress) \o "-congress/"
                      \o chamberWord \o "-" \o UrlWords[c.object_type][2]
                      \o "/" \o Text(to_string(c.number))
        IN  url = IF c.ver.some THEN stem \o "/text/" \o Text(c.ver.val) ELSE stem

\* The URL of a House report that carries a version has been rendered.
C8_Witness ==
    /\ pc = "rendered"
    /\ result.val.object_type = "HouseReport"
    /\ result.val.ver.some
    /\ url = "https://www.congress.gov/congressional-report/1st-congress/house-report/1/text/ih"

\* C9: every input in which the byte after the leading decimal digits is
\* not one of h, H, s, S (or is missing) is rejected.
C9_ChamberLetterRequired ==
    LET k == digit_loop(input, 1)
    IN  (Parsed /\ (k > Len(input) \/ ~IsChamberByte(input[k])))
            => result.tag = "Err"

\* The segments that are invalid by the rules of the validator: a congress
\* that does not convert, a missing chamber letter, a tag outside the table,
\* a number that is empty or zero, a trailing tag outside the vocabulary.
CongressBad == ~CongressOk
ChamberBad == Tokens.chamber = 0
ObjectTypeBad == ~ObjectTypeOk
NumberBad == ~NumberOk \/ DigitsValue(Tokens.number) = 0
VersionBad ==
    /\ Tokens.ver.some
    /\ slice_to_ascii_lowercase(Tokens.ver.val) \notin BILL_VERSIONS

\* C10: validation fails fast in the order congress, chamber, object type,
\* number, version: the error returned is that of the earliest invalid
\* segment, and no Citation is returned when any segment is invalid.
C10_FailFastInOrder ==
    Parsed =>
        /\ (CongressBad \/ ChamberBad \/ ObjectTypeBad \/ NumberBad \/ VersionBad)
               => result.tag = "Err"
        /\ CongressBad
               => result = CongressParse(Tokens.congress, CURRENT_CONGRESS)
        /\ (~CongressBad /\ ~ChamberBad /\ ObjectTypeBad)
               => result = Err("UnknownCongObjectType")
        /\ (~CongressBad /\ ~ChamberBad /\ ~ObjectTypeBad /\ NumberBad)
               => (result.tag = "Err" /\ result.err # "InvalidBillVersion")
        /\ (~CongressBad /\ ~ChamberBad /\ ~ObjectTypeBad /\ ~NumberBad /\ VersionBad)
               => result = Err("InvalidBillVersion")

\* The position after the bytes the five scanning phases consume.
ScanEnd(bs) ==
    LET p1 == congress_loop(bs, 1)
        p2 == IF p1 <= Len(bs) /\ IsChamberByte(bs[p1]) THEN p1 + 1 ELSE p1
    IN  alphabetic_loop(bs, digit_loop(bs, alphabetic_loop(bs, p2)))

\* The same position when the first phase takes every decimal digit.
GrammarEnd(bs) ==
    LET p1 == digit_loop(bs, 1)
        p2 == IF p1 <= Len(bs) /\ IsChamberByte(bs[p1]) THEN p1 + 1 ELSE p1
    IN  alphabetic_loop(bs, digit_loop(bs, alphabetic_loop(bs, p2)))

\* C12: the bytes left after the fifth scanning phase are discarded: the
\* outcome of parsing an input is the outcome of parsing the prefix the
\* five phases consume.
C12_TrailingBytesDiscarded ==
    Parsed =>
        /\ result = CitationParse(SubSeq(input, 1, ScanEnd(input) - 1),
                                  CURRENT_CONGRESS)
        /\ result = CitationParse(SubSeq(input, 1, GrammarEnd(input) - 1),
                                  CURRENT_CONGRESS)

\* "1hr1ih5" has parsed to the Citation of "1hr1ih".
C12_Witness ==
    /\ Parsed
    /\ input = Bytes("1hr1ih5")
    /\ ScanEnd(input) = Len(input)
    /\ result.tag = "Ok"
    /\ result.val.number = 1
    /\ result.val.ver = Some(Bytes("ih"))

\* C13: the ordinal in the URL is the congress number followed by a suffix
\* chosen by its last decimal digit alone (1 st, 2 nd, 3 rd, otherwise th),
\* also for 11, 12 and 13.
C13_OrdinalByLastDigit ==
    pc = "rendered" =>
        LET c == result.val.congress
            d == c % 10
            suffix == IF d = 1 THEN "st"
                      ELSE IF d = 2 THEN "nd"
                      ELSE IF d = 3 THEN "rd"
                      ELSE "th"
            report == result.val.object_type \in {"HouseReport", "SenateReport"}
            prefix == "https://www.congress.gov/"
                        \o (IF report THEN "congressional-report" ELSE "bill")
                        \o "/" \o Text(to_string(c)) \o suffix \o "-congress/"
        IN  /\ Len(url) > Len(prefix)
            /\ SubSeq(url, 1, Len(prefix)) = prefix

\* The URL of a citation of the 11th congress has been rendered with "11st".
C13_Witness ==
    /\ pc = "rendered"
    /\ result.val.congress = 11
    /\ url = "https://www.congress.gov/bill/11st-congress/house-bill/1"

\* A lowercase version code after a citation of each of the ten object types.
VersionLowerInputs ==
    { head \o v : head \in VersionHeads, v \in BILL_VERSIONS }

AsciiAlphanumeric == (48..57) \cup (65..90) \cup (97..122)

\* C16: Citation::parse never returns Error::FromUtf8: every byte the
\* tokenizer places in a segment is an ASCII digit or an ASCII letter.
C16_NeverFromUtf8 ==
    Parsed =>
        /\ result # Err("FromUtf8")
        /\ \A i \in 1..Len(Tokens.congress) : Tokens.congress[i] \in AsciiAlphanumeric
        /\ \A i \in 1..Len(Tokens.object_type) :
               Tokens.object_type[i] \in AsciiAlphanumeric
        /\ \A i \in 1..Len(Tokens.number) : Tokens.number[i] \in AsciiAlphanumeric
        /\ Tokens.ver.some =>
               \A i \in 1..Len(Tokens.ver.val) : Tokens.ver.val[i] \in AsciiAlphanumeric

\* A citation followed by U+00E9 has been parsed, and accepted.
C16_Witness ==
    /\ Parsed
    /\ input = Bytes("1hr1") \o <<195, 169>>
    /\ result.tag = "Ok"

HouseVariants ==
    { "HouseBill", "HouseResolution", "HouseConcurrentResolution",
      "HouseJointResolution", "HouseReport" }
SenateVariants ==
    { "SenateBill", "SenateResolution", "SenateConcurrentResolution",
      "SenateJointResolution", "SenateReport" }

\* C17: in every Citation parse returns, the object type is a House variant
\* iff the chamber is House and a Senate variant iff the chamber is Senate,
\* and the chamber word of the URL is that of the variant.
C17_ChamberMatchesObjectType ==
    Accepted =>
        LET c == result.val
            report == c.object_type \in {"HouseReport", "SenateReport"}
            prefix == "https://www.congress.gov/"
                        \o (IF report THEN "congressional-report" ELSE "bill")
                        \o "/" \o as_ordinal(c.congress) \o "-congress/"
            word == (IF c.object_type \in HouseVariants THEN "house" ELSE "senate")
                        \o "-"
        IN  /\ c.object_type \in HouseVariants <=> c.chamber = "House"
            /\ c.object_type \in SenateVariants <=> c.chamber = "Senate"
            /\ pc = "rendered" =>
                   SubSeq(url, Len(prefix) + 1, Len(prefix) + Len(word)) = word

\* A Senate report has been accepted and rendered under "senate-report".
C17_Witness ==
    /\ pc = "rendered"
    /\ result.val.chamber = "Senate"
    /\ result.val.object_type = "SenateReport"
    /\ input = Bytes("1srpt1")

\* C11: CURRENT_CONGRESS is computed exactly once however the threads race,
\* no thread reads it before the computation has completed, and every read
\* returns the value of that one computation however far the wall clock
\* has advanced since.
C11_ComputedOnce ==
    /\ computed.year <= 1
    /\ computed.congress <= 1
    /\ observed # {} =>
           /\ once.congress = "Complete"
           /\ computed.congress = 1
           /\ observed = {CURRENT_CONGRESS}
           /\ CURRENT_CONGRESS = CurrentCongressOf(CurrentYearOf(read_at))

\* Every thread has read CURRENT_CONGRESS after the wall clock moved into a
\* later congress, and the value is still that of the one computation.
C11_Witness ==
    /\ \A t \in Threads : thread[t].reads = MaxReads
    /\ computed.congress = 1
    /\ now > read_at
    /\ CurrentCongressOf(CurrentYearOf(now)) > CURRENT_CONGRESS
    /\ observed = {CURRENT_CONGRESS}

RECURSIVE YearOfDay(_, _)
\* The calendar year of the day that lies the given number of days after
\* 1 January of a year.
YearOfDay(days, y) ==
    LET len == IF y % 4 = 0 /\ (y % 100 # 0 \/ y % 400 = 0) THEN 366 ELSE 365
    IN  IF days < len THEN y ELSE YearOfDay(days - len, y + 1)

\* The calendar year (UTC) of an instant given in seconds since UNIX_EPOCH.
CalendarYear(secs) == YearOfDay(secs \div SecondsInDay, UNIX_EPOCH_YEAR)

\* C15: the year the Clock derives is the calendar year of the instant at
\* which the wall clock was read, so that CURRENT_CONGRESS is
\* (calendar_year - 1789) / 2 + 1; in December of year Y the year is Y.
C15_YearIsCalendarYear ==
    /\ once.year = "Complete" => CURRENT_YEAR = CalendarYear(read_at)
    /\ once.congress = "Complete" =>
           CURRENT_CONGRESS = (CalendarYear(read_at) - 1789) \div 2 + 1

====
